---- MODULE Spec2Model ----
(***************************************************************************)
(* Clinical Trials Explorer: the five request handlers of                  *)
(* backend/app/main.py over the clinical_trials table.                     *)
(*                                                                         *)
(* Handlers are plain `def` endpoints, which FastAPI runs on a thread      *)
(* pool, so requests overlap.  Every handler owns one Session (get_db);    *)
(* each SQL statement it sends is one step of the model, and the steps of  *)
(* different requests interleave.  The table holds what is committed       *)
(* (READ COMMITTED: a statement sees what was committed before it ran).    *)
(* A flush and the COMMIT that follows it in the same db.commit() call are *)
(* one step, and a handler starts with its first statement.                *)
(*                                                                         *)
(* The store: the Integer primary key draws its values from a database     *)
(* sequence; a SELECT without ORDER BY returns its rows in any order; a    *)
(* db.commit() may fail (the store is unavailable), and then nothing of    *)
(* the transaction is committed; a negative LIMIT or OFFSET is, depending  *)
(* on the database, an error of the statement or no limit and offset 0.    *)
(***************************************************************************)
EXTENDS Integers, Sequences, FiniteSets, TLC

\* ------------------------------------------------------------------ bounds
\* Number of values the id sequence may hand out.
MaxId == 2
\* Number of requests in flight at the same time.
NReq == 2

\* Ids a request may name: every id the sequence can issue, and one it never issues.
ReqIds == 1..(MaxId + 1)

\* ------------------------------------------------------------------ values
\* Python None: an absent query parameter, a null column.
None == "<None>"

Fields ==
    {"official_title", "acronym", "disease_area", "trial_phase", "status",
     "start_date", "end_date", "country", "sponsor", "description"}

\* A request body that passes ClinicalTrialCreate.
PayloadA ==
    [official_title |-> "A Study on Cognitive Enhancement",
     acronym        |-> "ACE",
     disease_area   |-> "Neurology",
     trial_phase    |-> "Phase II",
     status         |-> "Ongoing",
     start_date     |-> <<2025, 1, 1>>,
     end_date       |-> <<2025, 12, 31>>,
     country        |-> "Germany",
     sponsor        |-> "European Brain Institute",
     description    |-> "Testing a new neurostimulant in adults."]

\* Optional fields left out (None), and an empty string in a required str field.
PayloadB ==
    [PayloadA EXCEPT !.acronym = None, !.country = "", !.description = None]

\* Another status; end_date before start_date is accepted.
PayloadC ==
    [PayloadA EXCEPT !.status = "Completed", !.end_date = <<2024, 6, 30>>]

Payloads == {PayloadA, PayloadB, PayloadC}

\* An "id" key a client may put in the body (0: none given).
BodyIds == {0, 1}

\* schemas.ClinicalTrialCreate + model_dump(): the ten declared fields of the
\* body; pydantic ignores every other key, "id" included, and an optional field
\* the body leaves out takes its default, None.
ModelDump(body) == [f \in Fields |-> IF f \in DOMAIN body THEN body[f] ELSE None]

\* A raw body: the ten fields and possibly an id.
RawBody(p, bid) == [f \in Fields \cup {"id"} |-> IF f = "id" THEN bid ELSE p[f]]

\* schemas.ClinicalTrialBase: the fields declared without a default.
Required == Fields \ {"acronym", "description"}

\* The body {} of test_post_invalid_trial.
EmptyBody == [f \in {} |-> None]

\* A body with one required field left out.
BodyWithoutCountry == [f \in Fields \ {"country"} |-> PayloadA[f]]

\* A body that leaves out the two optional fields only.
BodyWithoutOptional == [f \in Required |-> PayloadB[f]]

\* The JSON bodies a client sends with POST /trials and PUT /trials/{id}.
Bodies ==
    {RawBody(PayloadA, bid) : bid \in BodyIds}
        \cup {RawBody(PayloadC, 0), BodyWithoutOptional, EmptyBody, BodyWithoutCountry}

\* Faulty variant: only the title is required.
ValidWithTitle(body) == "official_title" \in DOMAIN body

\* The body passes ClinicalTrialCreate: every required field is there.
Valid(body) == Required \subseteq DOMAIN body

\* schemas.ClinicalTrial (response_model): the row's columns and its id.
Trial(id, row) == [f \in Fields \cup {"id"} |-> IF f = "id" THEN id ELSE row[f]]

\* ------------------------------------------------------------------ state
VARIABLES
    table,      \* committed rows of clinical_trials: id -> row
    seq,        \* last value handed out by the id sequence
    req,        \* the requests in flight, oldest first, each with what its session holds
    out,        \* the response the last step sent (NoResponse: it sent none)
    lastWrite,  \* history: per stored id, the request whose write committed last
    delOk,      \* history: per id, how many delete requests were answered 200
    sessions    \* number of sessions get_db has opened and not yet closed

vars == <<table, seq, req, out, lastWrite, delOk, sessions>>

NoResponse == [op |-> "none", status |-> 0]

Init ==
    /\ table = <<>>
    /\ seq = 0
    /\ req = <<>>
    /\ out = NoResponse
    /\ lastWrite = <<>>
    /\ delOk = [i \in ReqIds |-> 0]
    /\ sessions = 0

\* get_db, `db = SessionLocal()`: the request gets a session of its own.
Acquire(n) == n + 1

\* Faulty variant: the session is closed after the yield, outside a finally, so
\* an exception that leaves the handler skips the close.
ReleaseUnlessFault(n, response) == IF response.status = 500 THEN n ELSE n - 1

\* get_db, `finally: db.close()`: whatever ended the request, its session is
\* closed; a transaction still open is rolled back.
Release(n, response) == n - 1

\* Faulty variant: what the failed commit had flushed stays in the table.
KeptFlushed(committed, flushed) == flushed

\* A db.commit() that raises rolls its transaction back: the table is as it
\* was committed, whatever the flush had sent.
RolledBack(committed, flushed) == committed

\* A worker of the thread pool is free to take a request.
Free == Len(req) < NReq

\* The requests in flight once request i has been answered.
Done(i) == SubSeq(req, 1, i - 1) \o SubSeq(req, i + 1, Len(req))

\* Function f with key k set to v (k added when new), and with key k removed.
Put(f, k, v) == [x \in DOMAIN f \cup {k} |-> IF x = k THEN v ELSE f[x]]

\* Faulty variant: the DELETE compares with <= and removes the lower ids too.
DropUpTo(f, k) == [x \in {y \in DOMAIN f : y > k} |-> f[x]]

\* DELETE ... WHERE id = :id
Drop(f, k) == [x \in DOMAIN f \ {k} |-> f[x]]

\* db.query(ClinicalTrial).filter(ClinicalTrial.id == id).first() is None
Absent(t, id) == id \notin DOMAIN t

\* Faulty variant: the missing row surfaces as an unhandled exception.
NotFoundAsFault(op, id) == [op |-> op, id |-> id, status |-> 500]

\* HTTPException(status_code=404, detail="Trial not found")
NotFound(op, id) == [op |-> op, id |-> id, status |-> 404, detail |-> "Trial not found"]

\* The exceptions that leave a handler and are no HTTPException:
\* the store fails at db.commit(); the flushed UPDATE matches no row;
\* db.refresh() finds no row.
StoreFailure == "OperationalError"
StaleData == "StaleDataError"
RowGone == "InvalidRequestError"

\* Faulty variant: the handler answers every exception of the store as "not found".
FaultAsNotFound(op, id, exc) ==
    [op |-> op, id |-> id, status |-> 404, detail |-> "Trial not found"]

\* An exception that is no HTTPException leaves the handler: 500.
\* get_db's finally closes the session, which rolls back what was not committed.
Fault(op, id, exc) == [op |-> op, id |-> id, status |-> 500, error |-> exc]

\* RequestValidationError: 422 with, per missing field, a "Field required" entry.
Unprocessable(op, id, body) ==
    [op |-> op, id |-> id, status |-> 422, missing |-> Required \ DOMAIN body]

\* ------------------------------------------------------------------ GET /trials/{id}
GetResponse(t, id) ==
    IF Absent(t, id)
    THEN NotFound("get", id)
    ELSE [op |-> "get", id |-> id, status |-> 200, body |-> Trial(id, t[id])]

\* get_trial: one SELECT, then the answer.
GetTrial ==
    /\ Free
    /\ \E id \in ReqIds : out' = GetResponse(table, id)
    /\ sessions' = Release(Acquire(sessions), out')
    /\ UNCHANGED <<table, seq, req, lastWrite, delOk>>

\* ------------------------------------------------------------------ POST /trials
\* Faulty variant: the id is one more than the largest id stored (a rowid), so
\* the id of a deleted last row is handed out again.
NextIdAfterLargest(t, s) ==
    IF DOMAIN t = {} THEN 1 ELSE (CHOOSE m \in DOMAIN t : \A x \in DOMAIN t : x <= m) + 1

\* models.ClinicalTrial.id: Integer primary key with no value given, so the
\* INSERT takes the next value of the table's id sequence.
NextId(t, s) == s + 1

\* Faulty variant: the optional columns are not passed on to the row.
NewRowWithoutOptional(body) ==
    [ModelDump(body) EXCEPT !.acronym = None, !.description = None]

\* ClinicalTrial(**trial.model_dump()): the row to insert.
NewRow(body) == ModelDump(body)

\* create_trial, db.add + db.commit: INSERT and COMMIT.
CreateCommit ==
    /\ Free
    /\ seq < MaxId
    /\ \E body \in Bodies :
         LET id == NextId(table, seq)
         IN  /\ Valid(body)
             /\ table' = Put(table, id, NewRow(body))
             /\ lastWrite' = Put(lastWrite, id, [op |-> "create", payload |-> ModelDump(body)])
             /\ req' = Append(req, [pc |-> "create_refresh", id |-> id])
    /\ seq' = seq + 1
    /\ out' = NoResponse
    /\ sessions' = Acquire(sessions)
    /\ UNCHANGED delOk

\* create_trial and update_trial, the `trial: schemas.ClinicalTrialCreate`
\* parameter: FastAPI validates the body before it calls the handler, and
\* answers 422 when the body does not pass.  get_db has run by then; its
\* session, which sent no statement, is closed.
RejectBody ==
    /\ Free
    /\ \E body \in Bodies :
         /\ ~Valid(body)
         /\ \/ out' = Unprocessable("create", 0, body)
            \/ \E id \in ReqIds : out' = Unprocessable("update", id, body)
    /\ sessions' = Release(Acquire(sessions), out')
    /\ UNCHANGED <<table, seq, req, lastWrite, delOk>>

\* create_trial, db.commit raising (the store fails): nothing is committed.  A
\* sequence value that was drawn stays drawn.
CreateFault ==
    /\ Free
    /\ seq < MaxId
    /\ \E body \in Bodies, inserted \in BOOLEAN :
         /\ Valid(body)
         /\ seq' = IF inserted THEN seq + 1 ELSE seq
         /\ table' = RolledBack(table,
                                IF inserted THEN Put(table, NextId(table, seq), NewRow(body))
                                            ELSE table)
    /\ out' = Fault("create", 0, StoreFailure)
    /\ sessions' = Release(Acquire(sessions), out')
    /\ UNCHANGED <<req, lastWrite, delOk>>

\* create_trial, db.refresh(db_trial): SELECT by primary key; InvalidRequestError
\* when the row is gone.
CreateRefresh(i) ==
    /\ req[i].pc = "create_refresh"
    /\ LET id == req[i].id
       IN  out' = IF Absent(table, id)
                  THEN Fault("create", id, RowGone)
                  ELSE [op |-> "create", id |-> id, status |-> 200,
                        body |-> Trial(id, table[id])]
    /\ req' = Done(i)
    /\ sessions' = Release(sessions, out')
    /\ UNCHANGED <<table, seq, lastWrite, delOk>>

\* ------------------------------------------------------------------ PUT /trials/{id}
\* update_trial, the existence check.  The session keeps the loaded object.
UpdateSelect ==
    /\ Free
    /\ \E id \in ReqIds, body \in Bodies :
         /\ Valid(body)
         /\ IF Absent(table, id)
            THEN /\ out' = NotFound("update", id)
                 /\ sessions' = Release(Acquire(sessions), out')
                 /\ UNCHANGED req
            ELSE /\ req' = Append(req, [pc |-> "update_commit", id |-> id,
                                        payload |-> ModelDump(body),
                                        loaded |-> table[id]])
                 /\ out' = NoResponse
                 /\ sessions' = Acquire(sessions)
    /\ UNCHANGED <<table, seq, lastWrite, delOk>>

\* The setattr loop and the flush: the unit of work puts in the UPDATE's SET
\* clause the attributes whose new value differs from the loaded one.
Dirty(loaded, payload) == {f \in Fields : payload[f] # loaded[f]}

\* UPDATE clinical_trials SET <dirty columns> WHERE id = :id
UpdateRow(row, payload, dirty) ==
    [f \in Fields |-> IF f \in dirty THEN payload[f] ELSE row[f]]

\* The table once the flush has sent its UPDATE (a row that is gone: no row matches).
Updated(t, id, payload, dirty) ==
    IF Absent(t, id) THEN t ELSE [t EXCEPT ![id] = UpdateRow(@, payload, dirty)]

\* update_trial, db.commit: no UPDATE when nothing is dirty; StaleDataError when
\* the UPDATE matches no row; or the store fails.
UpdateCommit(i) ==
    /\ req[i].pc = "update_commit"
    /\ LET id    == req[i].id
           dirty == Dirty(req[i].loaded, req[i].payload)
       IN  \E ok \in BOOLEAN :
             IF (~ok) \/ (dirty # {} /\ Absent(table, id))
             THEN /\ out' = Fault("update", id, IF ok THEN StaleData ELSE StoreFailure)
                  /\ table' = RolledBack(table, Updated(table, id, req[i].payload, dirty))
                  /\ req' = Done(i)
                  /\ sessions' = Release(sessions, out')
                  /\ UNCHANGED lastWrite
             ELSE /\ table' = Updated(table, id, req[i].payload, dirty)
                  /\ lastWrite' = IF Absent(table, id) THEN lastWrite
                                  ELSE [lastWrite EXCEPT ![id] =
                                          [op |-> "update", payload |-> req[i].payload]]
                  /\ req' = [req EXCEPT ![i] = [pc |-> "update_refresh", id |-> id]]
                  /\ out' = NoResponse
                  /\ UNCHANGED sessions
    /\ UNCHANGED <<seq, delOk>>

\* update_trial, db.refresh(existing_trial).
UpdateRefresh(i) ==
    /\ req[i].pc = "update_refresh"
    /\ LET id == req[i].id
       IN  out' = IF Absent(table, id)
                  THEN Fault("update", id, RowGone)
                  ELSE [op |-> "update", id |-> id, status |-> 200,
                        body |-> Trial(id, table[id])]
    /\ req' = Done(i)
    /\ sessions' = Release(sessions, out')
    /\ UNCHANGED <<table, seq, lastWrite, delOk>>

\* ------------------------------------------------------------------ DELETE /trials/{id}
\* delete_trial, the existence check.
DeleteSelect ==
    /\ Free
    /\ \E id \in ReqIds :
         IF Absent(table, id)
         THEN /\ out' = NotFound("delete", id)
              /\ sessions' = Release(Acquire(sessions), out')
              /\ UNCHANGED req
         ELSE /\ req' = Append(req, [pc |-> "delete_commit", id |-> id])
              /\ out' = NoResponse
              /\ sessions' = Acquire(sessions)
    /\ UNCHANGED <<table, seq, lastWrite, delOk>>

\* delete_trial, db.delete + db.commit: DELETE ... WHERE id = :id and COMMIT.
\* A DELETE that matches no row only warns (the mapper has no version column).
DeleteCommit(i) ==
    /\ req[i].pc = "delete_commit"
    /\ LET id == req[i].id
       IN  \E ok \in BOOLEAN :
             IF ok
             THEN /\ table' = Drop(table, id)
                  /\ lastWrite' = Drop(lastWrite, id)
                  /\ out' = [op |-> "delete", id |-> id, status |-> 200,
                             message |-> "Trial deleted"]
                  /\ delOk' = [delOk EXCEPT ![id] = @ + 1]
             ELSE /\ out' = Fault("delete", id, StoreFailure)
                  /\ table' = RolledBack(table, Drop(table, id))
                  /\ UNCHANGED <<lastWrite, delOk>>
    /\ req' = Done(i)
    /\ sessions' = Release(sessions, out')
    /\ UNCHANGED seq

\* ------------------------------------------------------------------ GET /trials
\* Number of list requests between their count query and their page query.
MaxScans == 1

\* The three filter parameters of a request (None: parameter not given).
Query(da, st, co) == [disease_area |-> da, status |-> st, country |-> co]

Queries ==
    {Query(None, None, None),
     Query(None, "Ongoing", "Germany"),
     Query(None, None, ""),
     Query("Oncology", "", None)}

\* limit: int = 10, offset: int = 0
DefaultLimit == 10
DefaultOffset == 0
Limits == {1, DefaultLimit}
Offsets == {DefaultOffset, 1}

\* The limit and offset parameters a request gives: any int passes `int`, a
\* negative one included.
NoPaging == [k \in {} |-> 0]
Pagings ==
    {NoPaging, [limit |-> 1], [offset |-> 1], [limit |-> 1, offset |-> 1],
     [limit |-> -1], [offset |-> -1]}

\* The query strings a client sends with GET /trials.
ListRequests ==
    {<<q, NoPaging>> : q \in Queries}
        \cup {<<Query(None, None, None), pg>> : pg \in Pagings}

\* A parameter the request does not give takes the default of the signature.
Bound(params, name, default) == IF name \in DOMAIN params THEN params[name] ELSE default

\* `if disease_area:` and its two siblings: Python truth of a str | None.
Truthy(v) == v # None /\ v # ""

\* The WHERE clause get_trials composes: one equality per parameter that is true.
Where(q, row) ==
    /\ Truthy(q.disease_area) => row.disease_area = q.disease_area
    /\ Truthy(q.status) => row.status = q.status
    /\ Truthy(q.country) => row.country = q.country

\* Ids of the rows the composed query selects.
Selected(t, q) == {id \in DOMAIN t : Where(q, t[id])}

\* query.count()
Count(t, q) == Cardinality(Selected(t, q))

\* Every enumeration of a finite set, each element once.
Orderings(S) ==
    {o \in [1..Cardinality(S) -> S] : \A i, j \in DOMAIN o : o[i] = o[j] => i = j}

Min(a, b) == IF a <= b THEN a ELSE b

\* OFFSET :offset LIMIT :limit over rows in the order o.
Page(o, offset, limit) ==
    IF offset >= Len(o) THEN <<>> ELSE SubSeq(o, offset + 1, Min(Len(o), offset + limit))

\* A negative LIMIT or OFFSET is an error of the statement in some databases
\* (PostgreSQL: "LIMIT must not be negative"); others run it, a negative LIMIT
\* as no limit and a negative OFFSET as 0 (SQLite).
BadPaging == "DataError"
Lenient(o, offset, limit) ==
    Page(o, IF offset < 0 THEN 0 ELSE offset, IF limit < 0 THEN Len(o) ELSE limit)

\* The query has no ORDER BY: the database may return the selected rows in any order.
RowOrders(t, q) == Orderings(Selected(t, q))

\* The rows of ids, in that order, as the response carries them.
Trials(t, ids) == [i \in DOMAIN ids |-> Trial(ids[i], t[ids[i]])]

\* query.offset(offset).limit(limit).all(): what the page query may return.
ScanResults(t, q, offset, limit) ==
    {Trials(t, Lenient(o, offset, limit)) : o \in RowOrders(t, q)}

\* get_trials, query.count(): SELECT count(*) over the composed query.
ListCount ==
    /\ Free
    /\ Cardinality({i \in DOMAIN req : req[i].pc = "list_page"}) < MaxScans
    /\ \E rq \in ListRequests :
         LET q == rq[1]
         IN  req' = Append(req, [pc |-> "list_page", q |-> q, asked |-> rq[2],
                                 limit |-> Bound(rq[2], "limit", DefaultLimit),
                                 offset |-> Bound(rq[2], "offset", DefaultOffset),
                                 total |-> Count(table, q)])
    /\ out' = NoResponse
    /\ sessions' = Acquire(sessions)
    /\ UNCHANGED <<table, seq, lastWrite, delOk>>

\* get_trials, the page query and the answer.
ListPage(i) ==
    /\ req[i].pc = "list_page"
    /\ \/ \E data \in ScanResults(table, req[i].q, req[i].offset, req[i].limit) :
            out' = [op |-> "list", status |-> 200, q |-> req[i].q, total |-> req[i].total,
                    limit |-> req[i].limit, offset |-> req[i].offset, data |-> data]
       \/ /\ req[i].limit < 0 \/ req[i].offset < 0
          /\ out' = Fault("list", 0, BadPaging)
    /\ req' = Done(i)
    /\ sessions' = Release(sessions, out')
    /\ UNCHANGED <<table, seq, lastWrite, delOk>>

\* ------------------------------------------------------------------ specification
Next ==
    \/ GetTrial
    \/ RejectBody
    \/ CreateCommit
    \/ CreateFault
    \/ UpdateSelect
    \/ DeleteSelect
    \/ ListCount
    \/ \E i \in DOMAIN req :
        \/ CreateRefresh(i)
        \/ UpdateCommit(i)
        \/ UpdateRefresh(i)
        \/ DeleteCommit(i)
        \/ ListPage(i)

Spec == Init /\ [][Next]_vars

\* ------------------------------------------------------------------ claims
\* The request whose write to id committed last is a create / an update.
LastIsCreate(id) == id \in DOMAIN lastWrite /\ lastWrite[id].op = "create"
LastIsUpdate(id) == id \in DOMAIN lastWrite /\ lastWrite[id].op = "update"

\* The store has never held a row under id.
NeverIssued(id) == id \notin DOMAIN table /\ delOk[id] = 0

\* C1 (round trip): while create(X) is the last committed write to its id (no
\* update or delete of that id since), the create answers 200 with the ten
\* fields of X under an id drawn from the store's sequence, and every get of
\* that id answers 200 with the same ten fields and the same id.
C1_RoundTrip ==
    /\ (out.op = "create" /\ out.status = 200) =>
          /\ out.id \in 1..seq
          /\ out.body.id = out.id
          /\ LastIsCreate(out.id) => out.body = Trial(out.id, lastWrite[out.id].payload)
    /\ (out.op = "get" /\ LastIsCreate(out.id)) =>
          /\ out.status = 200
          /\ out.body = Trial(out.id, lastWrite[out.id].payload)

\* A get answers a record created from the payload with the optional fields null,
\* under the second id of the sequence.
C1_Witness ==
    /\ out.op = "get"
    /\ out.status = 200
    /\ out.id = 2
    /\ LastIsCreate(out.id)
    /\ lastWrite[out.id].payload = PayloadB
    /\ out.body.acronym = None

\* C2 (delete finality): a delete of an id is answered 200 exactly once; once it
\* has been, the row is gone for good, every get of the id answers 404 and no
\* update or delete of the id is answered 200 again.
C2_DeleteFinality ==
    \A id \in ReqIds :
        delOk[id] >= 1 =>
            /\ delOk[id] = 1
            /\ id \notin DOMAIN table
            /\ (out.op = "get" /\ out.id = id) => out.status = 404
            /\ (out.op = "update" /\ out.id = id) => out.status # 200

\* C3 (update full replace): while update(id, Y) is the last committed write to
\* id, the update answers, and every get of id answers, exactly the ten fields
\* of Y under the same id.
C3_UpdateFullReplace ==
    (out.op \in {"get", "update"} /\ out.status = 200 /\ LastIsUpdate(out.id)) =>
        out.body = Trial(out.id, lastWrite[out.id].payload)

\* C4 (unknown id): get, update and delete of an id the store never held answer
\* 404, never 200 or 500, whatever the store holds.  (A PUT whose body fails
\* validation is answered 422 before update_trial is called: it is no update.)
C4_UnknownId ==
    (out.op \in {"get", "update", "delete"} /\ out.status # 422 /\ NeverIssued(out.id))
        => out.status = 404

\* A delete of a never-issued id is answered 404 while the store holds a record.
C4_Witness ==
    /\ out.op = "delete"
    /\ out.status = 404
    /\ NeverIssued(out.id)
    /\ DOMAIN table # {}

\* The request that entered at this step, when one did.
Entered == req'[Len(req')]
Enters(pc) == Len(req') = Len(req) + 1 /\ Entered.pc = pc

FilterFields == {"disease_area", "status", "country"}

\* Exact-match semantics of a filter set: every criterion that is given (not
\* None), the empty string included, must equal the record's field.
Exact(q, row) == \A f \in FilterFields : q[f] # None => row[f] = q[f]
ExactSelected(t, q) == {id \in DOMAIN t : Exact(q, t[id])}

\* The total a list request computes is the number of stored records that
\* satisfy its filter set, whatever its limit and offset.
CountsExactly ==
    Enters("list_page") => Entered.total = Cardinality(ExactSelected(table, Entered.q))

\* C5 (count independence): for every filter set and every (limit, offset), the
\* total of a list request equals the number of stored records satisfying the
\* filter set at its count query; limit and offset have no part in it.
C5_CountIndependence == [][CountsExactly]_vars

\* The concatenations of the pages at offset 0, limit, 2*limit, ... up to the
\* first empty page, over the rows of t.
RECURSIVE Walks(_, _, _, _)
Walks(t, q, limit, offset) ==
    UNION {IF p = <<>> THEN {<<>>}
                       ELSE {p \o w : w \in Walks(t, q, limit, offset + limit)} :
              p \in ScanResults(t, q, offset, limit)}

\* w lists every record of t matching q, each once, and nothing else.
Covers(w, t, q) ==
    /\ {w[i].id : i \in DOMAIN w} = ExactSelected(t, q)
    /\ Len(w) = Cardinality(ExactSelected(t, q))
    /\ \A i \in DOMAIN w : w[i] = Trial(w[i].id, t[w[i].id])

\* C6 (pagination coverage): over the stored records as they are, for every
\* filter set and every limit > 0, the pages at offset 0, limit, 2*limit, ...
\* up to the first empty page list exactly the records matching the filter set,
\* each once.
C6_PaginationCoverage ==
    \A q \in Queries, limit \in Limits :
        \A w \in Walks(table, q, limit, 0) : Covers(w, table, q)

Ascending(data) == \A i, j \in DOMAIN data : i < j => data[i].id < data[j].id

\* C7 (scan ordering): the data of a list response is in ascending id order,
\* and on unchanged data a list request with given filters, limit and offset has
\* one possible data sequence.
C7_ScanOrdering ==
    /\ (out.op = "list" /\ out.status = 200) => Ascending(out.data)
    /\ \A q \in Queries, limit \in Limits, offset \in Offsets :
          Cardinality(ScanResults(table, q, offset, limit)) = 1

\* The data of a list response is a page of the records that satisfy the
\* filter set by exact equality.
ReturnsExactly ==
    (out.op = "list" /\ out.status = 200) =>
        out.data \in {Trials(table, Page(o, out.offset, out.limit)) :
                         o \in Orderings(ExactSelected(table, out.q))}

\* C8 (filter semantics): the records a list request counts and returns are
\* exactly those equal to every given criterion (logical AND); a criterion not
\* given constrains nothing, so no criteria match every stored record.
C8_FilterSemantics == [][CountsExactly]_vars /\ []ReturnsExactly

\* C9 (empty string is not absence): a list request with a criterion given as
\* the empty string returns only records whose field is the empty string; one
\* that gives no criterion returns a page of all stored records.
C9_EmptyStringCriterion ==
    (out.op = "list" /\ out.status = 200) =>
        /\ \A f \in FilterFields :
              out.q[f] = "" => \A i \in DOMAIN out.data : out.data[i][f] = ""
        /\ out.q = Query(None, None, None) =>
              {out.data[i].id : i \in DOMAIN out.data} \subseteq DOMAIN table

RowsComplete(t) == \A id \in DOMAIN t : \A f \in Required : t[id][f] # None

\* C11 (validation failure): a step that answers 422 writes nothing and starts
\* no handler: the stored records, their number, the id sequence and the
\* requests in flight are as before; and no body that lacks a required field
\* ever reaches the store: every record stored has all its required fields.
C11_ValidationFailure ==
    [][/\ out'.status = 422 =>
             /\ out'.op \in {"create", "update"}
             /\ out'.missing # {}
             /\ UNCHANGED <<table, seq, req, lastWrite>>
       /\ RowsComplete(table')]_vars

\* The empty body is answered 422 on a create while the store holds a record.
C11_Witness ==
    /\ out.op = "create"
    /\ out.status = 422
    /\ out.missing = Required
    /\ DOMAIN table # {}

\* C12 (NotFound has no side effects): a step that answers 404 leaves the
\* stored records, every field of them and the id sequence as they were, and
\* it is the request's existence check: no request that went on past its
\* check (one in flight, with a write pending) is ended by it.
C12_NotFoundNoSideEffects ==
    [][out'.status = 404 =>
          /\ out'.op \in {"get", "update", "delete"}
          /\ UNCHANGED <<table, seq, req, lastWrite, delOk>>]_vars

\* An update of a deleted id is answered 404 while the store holds another record.
C12_Witness ==
    /\ out.op = "update"
    /\ out.status = 404
    /\ delOk[out.id] >= 1
    /\ DOMAIN table # {}

\* C13 (check-then-act race): an update or delete that passed its existence
\* check ends in 500 only when the store itself failed; losing the record to a
\* concurrent delete between check and write ends it in 404 or 200.
C13_CheckThenActRace ==
    (out.op \in {"update", "delete"} /\ out.status = 500) => out.error = StoreFailure

\* C14 (whole-record states): every stored record equals, in all ten fields,
\* one whole payload that a create or update may carry, never fields of two
\* payloads, and no get answers a record that is not one whole payload.
C14_WholeRecords ==
    /\ \A id \in DOMAIN table : table[id] \in Payloads
    /\ (out.op = "get" /\ out.status = 200) =>
          \E p \in Payloads : out.body = Trial(out.id, p)

\* C15 (list always succeeds): every list request, whatever its filter values,
\* limit and offset, is answered 200 with total, limit, offset and data; when
\* no stored record has the values the filter set names, data is empty.
C15_ListAlwaysSucceeds ==
    out.op = "list" =>
        /\ out.status = 200
        /\ {"total", "limit", "offset", "data"} \subseteq DOMAIN out
        /\ Selected(table, out.q) = {} => out.data = <<>>

\* C16 (pagination bounds): a list request that does not give limit scans with
\* limit 10, one that does not give offset scans with offset 0, and no list
\* request goes to its scan with a negative limit or a negative offset.
C16_PaginationBounds ==
    [][Enters("list_page") =>
          /\ "limit" \notin DOMAIN Entered.asked => Entered.limit = 10
          /\ "offset" \notin DOMAIN Entered.asked => Entered.offset = 0
          /\ Entered.limit >= 0
          /\ Entered.offset >= 0]_vars

\* C17 (rollback on storage fault): a create, update or delete that fails at
\* its commit is answered 500 in a step that leaves every stored record as it
\* was, and the request is over: it is not in flight afterwards, so nothing
\* it had pending is committed later and it is not tried again.
C17_RollbackOnFault ==
    [][(out'.status = 500 /\ out'.error \in {StoreFailure, StaleData}) =>
          /\ out'.op \in {"create", "update", "delete"}
          /\ table' = table
          /\ lastWrite' = lastWrite
          /\ \/ req' = req
             \/ \E i \in DOMAIN req :
                   /\ req[i].pc \in {"update_commit", "delete_commit"}
                   /\ req' = Done(i)]_vars

\* An update of a stored record fails at its commit with the store down, while
\* the record differs from the update's payload.
C17_Witness ==
    /\ out.op = "update"
    /\ out.status = 500
    /\ out.error = StoreFailure
    /\ out.id \in DOMAIN table
    /\ table[out.id] = PayloadA

\* C18 (session scoping): every request in flight holds one session of its
\* own and a request that has been answered holds none, whatever answered it:
\* the sessions open are as many as the requests in flight.
C18_SessionScoping == sessions = Len(req)

\* An update ended by a fault has closed its session while another request,
\* still in flight, keeps its own.
C18_Witness ==
    /\ out.op = "update"
    /\ out.status = 500
    /\ Len(req) = 1
    /\ sessions = 1

Max(a, b) == IF a >= b THEN a ELSE b

\* C19 (count/page consistency): in a list response with limit >= 0 and
\* offset >= 0, data has min(limit, max(0, total - offset)) records, total being
\* the total of the same response, and every record in data has the value of
\* every criterion of the filter set (of those that are not the empty string,
\* which C9 is about).
C19_CountPageConsistency ==
    (out.op = "list" /\ out.status = 200 /\ out.limit >= 0 /\ out.offset >= 0) =>
        /\ Len(out.data) = Min(out.limit, Max(0, out.total - out.offset))
        /\ \A i \in DOMAIN out.data : Where(out.q, out.data[i])

\* The ids whose record is not the same after the step as before it.
Changed ==
    {id \in DOMAIN table \cup DOMAIN table' :
        \/ id \notin DOMAIN table
        \/ id \notin DOMAIN table'
        \/ table[id] # table'[id]}

\* C20 (write locality): a create adds the record of its new id and changes no
\* other; the commit of an update changes no record but that of its id; a
\* delete answered 200 removes no record but that of its id; a step that
\* answers a get, a list, a 404 or a 422, or that counts for a list, changes
\* none.
C20_WriteLocality ==
    [][/\ Enters("create_refresh") =>
             /\ Changed = {Entered.id}
             /\ Entered.id \notin DOMAIN table
       /\ \A i \in DOMAIN req :
             (req[i].pc = "update_commit" /\ Len(req') = Len(req)
                 /\ req'[i].pc = "update_refresh") => Changed \subseteq {req[i].id}
       /\ (out'.op = "delete" /\ out'.status = 200) =>
             /\ Changed \subseteq {out'.id}
             /\ out'.id \notin DOMAIN table'
       /\ (out'.op \in {"get", "list"} \/ out'.status \in {404, 422}
             \/ Enters("list_page")) => Changed = {}]_vars

\* A delete is answered 200 and the record of the other id is still stored.
C20_Witness ==
    /\ out.op = "delete"
    /\ out.status = 200
    /\ DOMAIN table # {}
    /\ out.id \notin DOMAIN table

====
